---- MODULE Spec2Model ----
(***************************************************************************)
(* Model of the tunnelto portal control plane:                             *)
(*   - portal_server/src/network/mod.rs : sibling discovery and the host   *)
(*     resolver (get_instances, serves_host, instance_for_host);           *)
(*   - portal_lib/src/handshake/agent.rs : the AgentHandshake message,     *)
(*     its derive_builder builder and its serde_json wire encoding;        *)
(*   - portal_server/src/main.rs : the process-wide OnceLock singletons,   *)
(*     the two registries and the accept loop of the public listener.      *)
(***************************************************************************)
EXTENDS Integers, Sequences, FiniteSets, TLC

VARIABLES
    \* ---- portal_server/src/network/mod.rs ----
    gossip_dns_host,  \* get_config().gossip_dns_host : "None" or a DNS name
    resolverFault,    \* environment: where the DNS resolver is going to fail
    discoveries,      \* number of Instance::get_instances calls
    discovery,        \* what get_instances returned: "none", "Ok" or "Err"
    host,             \* the argument of instance_for_host
    pc,               \* position of the instance_for_host task
    instances,        \* the Vec<Instance> get_instances returned (ips)
    plan,             \* what each queried instance is going to do (environment)
    q,                \* one serves_host future per instance
    inner,            \* select_ok's Vec of futures still racing (indices into q)
    result,           \* what instance_for_host returned
    dnsLookups,       \* number of resolver.lookup_ip calls issued
    queriesSent,      \* number of host queries (client.get(..).send()) issued
    firstPositive,    \* index of the query whose positive answer arrived first, or 0
    \* ---- portal_lib/src/handshake/agent.rs ----
    hpc,              \* position of the code that makes and ships a handshake
    builder,          \* AgentHandshakeBuilder: every field None or Some(value)
    versionArg,       \* the text the last successful version(text) call got
    agentIdArg,       \* the text the last successful agent_id(text) call got
    handshake,        \* the AgentHandshake value built or constructed
    handshake2,       \* the value a second build() of the same builder made
    wire,             \* its serde_json encoding
    decoded,          \* what serde_json::from_str made of the encoding
    panic,            \* "none", or the call whose unwrap() panicked
    \* ---- portal_server/src/main.rs ----
    mainPc,           \* position of the main task: "accept" or "panicked"
    acceptLog,        \* what each listener.accept() of the loop led to
    connections,      \* CONNECTIONS : client id -> connected client
    active_streams,   \* ACTIVE_STREAMS : stream id -> active stream
    history,          \* the registry operations performed so far, in order
    cell,             \* every OnceLock: uninitialised, initialising or set
    task,             \* every task: the stack of get_or_init calls it is in
    got,              \* every task: the instance each getter last returned to it
    initRuns          \* every OnceLock: how often its initialiser has run

netvars == <<gossip_dns_host, resolverFault, discoveries, discovery, host, pc,
             instances, plan, q, inner, result, dnsLookups, queriesSent,
             firstPositive>>

hsvars == <<hpc, builder, versionArg, agentIdArg, handshake, handshake2, wire,
            decoded, panic>>

srvvars == <<mainPc, acceptLog, connections, active_streams, history, cell, task,
             got, initRuns>>

vars == <<netvars, hsvars, srvvars>>

----------------------------------------------------------------------------
\* Bounds of the model.

\* Largest number of sibling instances one DNS answer holds.
MaxInstances == 2

\* Number of hex digits of a Uuid in the model (32 in the program).
UuidHexLen == 4

\* Largest number of listener.accept() calls of the accept loop that are followed.
MaxAccepts == 6

\* Largest number of registry operations that are followed.
MaxOps == 3

\* Number of tasks calling the getters of the singletons.
MaxTasks == 2

\* Largest number of getter calls the tasks make, all together.
MaxCalls == 3

----------------------------------------------------------------------------
\* Values.

Hosts == {"a.example.com"}
DnsNames == {"portal.internal"}
IpPool == 1..MaxInstances

\* The ClientId a sibling holds for the queried host, when it holds one: every
\* control connection has its own identity.
ClientOf(ip) == 100 + ip
ClientIds == {ClientOf(ip) : ip \in IpPool}
NoClient == 0

\* StatusCode::OK
StatusOK == 200
StatusNotFound == 404
Statuses == {StatusOK, StatusNotFound}

\* HostQueryResponse bodies: not decodable, {"client_id": null},
\* {"client_id": c}.
Bodies == {"bad", "null", "some"}

\* enum Error
ErrIo == "Io"
ErrRequest == "Request"
ErrResolver == "Resolver"
ErrDoesNotServeHost == "DoesNotServeHost"
ErrorKinds == {ErrIo, ErrRequest, ErrResolver, ErrDoesNotServeHost}

NoResult == [kind |-> "none", err |-> "none", ip |-> 0, client |-> NoClient]
Ok(ip, c) == [kind |-> "Ok", err |-> "none", ip |-> ip, client |-> c]
Err(e) == [kind |-> "Err", err |-> e, ip |-> 0, client |-> NoClient]

\* What a queried sibling does with the host query: never answers within the
\* 2 second bound, fails at transport level, or replies with a status and a body.
Plans ==
    {[kind |-> "timeout", status |-> StatusOK, body |-> "none"],
     [kind |-> "error", status |-> StatusOK, body |-> "none"]}
    \cup [kind : {"reply"}, status : Statuses, body : Bodies]

\* Possible answers of resolver.lookup_ip: the address records of the name, in
\* the order the resolver lists them (ascending or descending here).
DnsAnswers ==
    {[i \in 1..n |-> i] : n \in 0..MaxInstances}
    \cup {[i \in 1..n |-> n + 1 - i] : n \in 0..MaxInstances}

\* A serves_host future that has just been created and not yet polled.
NewQuery ==
    [phase |-> "send", net |-> "none", status |-> 0, body |-> "none",
     client |-> NoClient, timer |-> FALSE, res |-> NoResult]

----------------------------------------------------------------------------
\* Instance::serves_host

\* Variant: any status with a present client id counts as a match.
MatchStatusClientAnyStatus(ip, status, body, client) ==
    IF body = "some"
    THEN Ok(ip, client)
    ELSE Err(ErrDoesNotServeHost)

\* match (status, result.client_id)
MatchStatusClient(ip, status, body, client) ==
    IF status = StatusOK /\ body = "some"
    THEN Ok(ip, client)
    ELSE Err(ErrDoesNotServeHost)

\* response.json().await? followed by the match
DecodeAndMatch(ip, status, body, client) ==
    IF body = "bad"
    THEN Err(ErrRequest)
    ELSE MatchStatusClient(ip, status, body, client)

\* Variant: the request is built without .timeout(..), so an expired timer
\* does not complete the future.
PollServesHostNoTimeout(ip, f) ==
    IF f.phase \notin {"send", "json"} THEN f
    ELSE IF f.net = "err"
    THEN [f EXCEPT !.phase = "done", !.res = Err(ErrRequest)]
    ELSE IF f.net = "none" THEN f
    ELSE IF f.net = "head" THEN [f EXCEPT !.phase = "json"]
    ELSE [f EXCEPT !.phase = "done",
                   !.res = DecodeAndMatch(ip, f.status, f.body, f.client)]

\* One poll of the future serves_host(self = ip): the new future state; it is
\* Ready exactly when its phase is "done".
PollServesHost(ip, f) ==
    IF f.phase \notin {"send", "json"} THEN f
    ELSE IF f.timer \/ f.net = "err"
    THEN [f EXCEPT !.phase = "done", !.res = Err(ErrRequest)]
    ELSE IF f.net = "none" THEN f
    ELSE IF f.net = "head" THEN [f EXCEPT !.phase = "json"]
    ELSE [f EXCEPT !.phase = "done",
                   !.res = DecodeAndMatch(ip, f.status, f.body, f.client)]

----------------------------------------------------------------------------
\* futures::future::select_ok

\* Variant: the futures are searched from the back.
LastReady(rem, polled) ==
    IF \E k \in 1..Len(rem) : polled[rem[k]].phase = "done"
    THEN CHOOSE k \in 1..Len(rem) :
            /\ polled[rem[k]].phase = "done"
            /\ \A j \in (k + 1)..Len(rem) : polled[rem[j]].phase # "done"
    ELSE 0

\* Index in rem (a sequence of positions of qs) of the first future that is
\* Ready when polled, 0 when none is.
FirstReady(rem, polled) ==
    IF \E k \in 1..Len(rem) : polled[rem[k]].phase = "done"
    THEN CHOOSE k \in 1..Len(rem) :
            /\ polled[rem[k]].phase = "done"
            /\ \A j \in 1..(k - 1) : polled[rem[j]].phase # "done"
    ELSE 0

RemoveAt(s, k) == SubSeq(s, 1, k - 1) \o SubSeq(s, k + 1, Len(s))

\* Variant: every future queries on behalf of the first instance of the list.
PolledUpToAsFirst(ips, qs, rem, k) ==
    [i \in DOMAIN qs |->
        IF \E j \in 1..Len(rem) :
              rem[j] = i /\ (k = 0 \/ j <= k)
        THEN PollServesHost(ips[1], qs[i])
        ELSE qs[i]]

\* The futures find_map polls before it stops at position k (all when k = 0).
PolledUpTo(ips, qs, rem, k) ==
    [i \in DOMAIN qs |->
        IF \E j \in 1..Len(rem) :
              rem[j] = i /\ (k = 0 \/ j <= k)
        THEN PollServesHost(ips[i], qs[i])
        ELSE qs[i]]

\* Variant: the first future that is Ready ends the race, Ok or Err.
SelectOkPollAbortOnErr(ips, qs, rem) ==
    LET all == [i \in DOMAIN qs |-> PollServesHost(ips[i], qs[i])]
        k == FirstReady(rem, all)
        polled == PolledUpTo(ips, qs, rem, k)
    IN  IF k = 0
        THEN [out |-> NoResult, q |-> polled, inner |-> rem]
        ELSE [out |-> polled[rem[k]].res,
              q |-> [j \in DOMAIN qs |->
                       IF j # rem[k] /\ polled[j].phase \in {"send", "json"}
                       THEN [polled[j] EXCEPT !.phase = "dropped"]
                       ELSE polled[j]],
              inner |-> <<>>]

\* Variant: a Request error (timeout, transport) ends the race; only
\* DoesNotServeHost answers are skipped.
RECURSIVE SelectOkPollAbortOnRequestErr(_, _, _)
SelectOkPollAbortOnRequestErr(ips, qs, rem) ==
    LET all == [i \in DOMAIN qs |-> PollServesHost(ips[i], qs[i])]
        k == FirstReady(rem, all)
        polled == PolledUpTo(ips, qs, rem, k)
    IN  IF k = 0
        THEN [out |-> NoResult, q |-> polled, inner |-> rem]
        ELSE LET i == rem[k]
                 rest == RemoveAt(rem, k)
             IN  IF \/ polled[i].res.kind = "Ok"
                    \/ polled[i].res.err = ErrRequest
                    \/ rest = <<>>
                 THEN [out |-> polled[i].res,
                       q |-> [j \in DOMAIN qs |->
                                IF \E m \in 1..Len(rest) : rest[m] = j
                                THEN [polled[j] EXCEPT !.phase = "dropped"]
                                ELSE polled[j]],
                       inner |-> <<>>]
                 ELSE SelectOkPollAbortOnRequestErr(ips, polled, rest)

\* Variant: an Err is returned as soon as no other future is ready, instead
\* of when no other future is left.
RECURSIVE SelectOkPollErrWhenIdle(_, _, _)
SelectOkPollErrWhenIdle(ips, qs, rem) ==
    LET all == [i \in DOMAIN qs |-> PollServesHost(ips[i], qs[i])]
        k == FirstReady(rem, all)
        polled == PolledUpTo(ips, qs, rem, k)
    IN  IF k = 0
        THEN [out |-> NoResult, q |-> polled, inner |-> rem]
        ELSE LET i == rem[k]
                 rest == RemoveAt(rem, k)
             IN  IF \/ polled[i].res.kind = "Ok"
                    \/ rest = <<>>
                    \/ FirstReady(rest, all) = 0
                 THEN [out |-> polled[i].res,
                       q |-> [j \in DOMAIN qs |->
                                IF \E m \in 1..Len(rest) : rest[m] = j
                                THEN [polled[j] EXCEPT !.phase = "dropped"]
                                ELSE polled[j]],
                       inner |-> <<>>]
                 ELSE SelectOkPollErrWhenIdle(ips, polled, rest)

\* SelectOk::poll: loop { find the first ready future; remove it; return on Ok,
\* or on Err when it was the last one }.
RECURSIVE SelectOkPoll(_, _, _)
SelectOkPoll(ips, qs, rem) ==
    LET all == [i \in DOMAIN qs |-> PollServesHost(ips[i], qs[i])]
        k == FirstReady(rem, all)
        polled == PolledUpTo(ips, qs, rem, k)
    IN  IF k = 0
        THEN [out |-> NoResult, q |-> polled, inner |-> rem]
        ELSE LET i == rem[k]
                 rest == RemoveAt(rem, k)
             IN  IF polled[i].res.kind = "Ok"
                 THEN [out |-> polled[i].res,
                       q |-> [j \in DOMAIN qs |->
                                IF \E m \in 1..Len(rest) : rest[m] = j
                                THEN [polled[j] EXCEPT !.phase = "dropped"]
                                ELSE polled[j]],
                       inner |-> <<>>]
                 ELSE IF rest = <<>>
                 THEN [out |-> polled[i].res, q |-> polled, inner |-> rest]
                 ELSE SelectOkPoll(ips, polled, rest)

----------------------------------------------------------------------------
\* Instance::get_instances

\* Variant: a missing discovery name falls through to the lookup.
GossipQueryAlways(cfg) == [some |-> TRUE, dns |-> cfg]

\* if let Some(dns) = get_config().gossip_dns_host.clone() { dns } else { return Ok(vec![]) }
GossipQuery(cfg) ==
    IF cfg # "None"
    THEN [some |-> TRUE, dns |-> cfg]
    ELSE [some |-> FALSE, dns |-> "None"]

\* Variant: a resolver failure is reported as "not served".
FromResolveErrorNotServed == ErrDoesNotServeHost

\* `?` on a ResolveError: Error::Resolver(#[from] ResolveError)
FromResolveError == ErrResolver

----------------------------------------------------------------------------
\* portal_lib/src/handshake/agent.rs : values and their text forms.
\* A text is a sequence of one-character strings; None is <<>>, Some(v) is <<v>>.

None == <<>>
Some(v) == <<v>>

DigitChars == <<"0", "1", "2", "3", "4", "5", "6", "7", "8", "9">>
Digits == {DigitChars[d] : d \in 1..10}
Letters == {"a", "b", "c", "d", "e", "f", "g", "n", "r", "t", "x"}
HexLower == Digits \cup {"a", "b", "c", "d", "e", "f"}

DigitVal(c) == (CHOOSE d \in 1..10 : DigitChars[d] = c) - 1

\* u64::to_string / Display of an unsigned number
RECURSIVE NatToText(_)
NatToText(n) ==
    IF n < 10
    THEN <<DigitChars[n + 1]>>
    ELSE NatToText(n \div 10) \o <<DigitChars[(n % 10) + 1]>>

\* Value of a non-empty run of decimal digits.
RECURSIVE TextToNat(_)
TextToNat(t) ==
    IF t = <<>>
    THEN 0
    ELSE TextToNat(SubSeq(t, 1, Len(t) - 1)) * 10 + DigitVal(t[Len(t)])

\* First position >= i of t that holds no character of cs (Len(t) + 1 if none).
RECURSIVE RunEnd(_, _, _)
RunEnd(t, i, cs) ==
    IF i > Len(t) \/ t[i] \notin cs THEN i ELSE RunEnd(t, i + 1, cs)

\* The pieces of t between the separators sep.
Range(t) == {t[k] : k \in 1..Len(t)}

RECURSIVE Split(_, _)
Split(t, sep) ==
    LET e == RunEnd(t, 1, {c \in Range(t) : c # sep})
    IN  IF e > Len(t)
        THEN <<t>>
        ELSE <<SubSeq(t, 1, e - 1)>> \o Split(SubSeq(t, e + 1, Len(t)), sep)

RECURSIVE Join(_, _)
Join(parts, sep) ==
    IF Len(parts) = 0 THEN <<>>
    ELSE IF Len(parts) = 1 THEN parts[1]
    ELSE parts[1] \o <<sep>> \o Join(Tail(parts), sep)

AllDigits(t) == \A k \in 1..Len(t) : t[k] \in Digits

\* ---- semver::Version ----

Version(major, minor, patch, pre, build) ==
    [major |-> major, minor |-> minor, patch |-> patch, pre |-> pre,
     build |-> build]

Fail == [ok |-> FALSE, v |-> <<>>, next |-> 0]

\* semver: numeric_identifier (no empty number, no leading zero)
NumericIdentifier(t, i) ==
    LET e == RunEnd(t, i, Digits)
    IN  IF e = i THEN Fail
        ELSE IF t[i] = "0" /\ e > i + 1 THEN Fail
        ELSE [ok |-> TRUE, v |-> TextToNat(SubSeq(t, i, e - 1)), next |-> e]

\* semver: identifier (prerelease when isPre, build metadata otherwise):
\* dot separated runs of [0-9A-Za-z-], none empty; a numeric prerelease
\* run has no leading zero. An empty identifier is returned as such.
Identifier(t, i, isPre) ==
    LET e == RunEnd(t, i, Digits \cup Letters \cup {"-", "."})
        id == SubSeq(t, i, e - 1)
        segs == Split(id, ".")
    IN  IF id = <<>> THEN [ok |-> TRUE, v |-> <<>>, next |-> i]
        ELSE IF \E k \in 1..Len(segs) : segs[k] = <<>> THEN Fail
        ELSE IF /\ isPre
                /\ \E k \in 1..Len(segs) :
                      /\ Len(segs[k]) > 1
                      /\ AllDigits(segs[k])
                      /\ segs[k][1] = "0"
        THEN Fail
        ELSE [ok |-> TRUE, v |-> id, next |-> e]

\* The optional "-prerelease" (mark "-") or "+build" (mark "+") part at i.
OptionalPart(t, i, mark, isPre) ==
    IF i <= Len(t) /\ t[i] = mark
    THEN LET r == Identifier(t, i + 1, isPre)
         IN  IF r.ok /\ r.v # <<>> THEN r ELSE Fail
    ELSE [ok |-> TRUE, v |-> <<>>, next |-> i]

\* <Version as FromStr>::from_str
ParseVersion(t) ==
    LET bad == [ok |-> FALSE, v |-> Version(0, 0, 0, <<>>, <<>>)]
        ma == NumericIdentifier(t, 1)
    IN  IF ~ma.ok \/ ma.next > Len(t) \/ t[ma.next] # "." THEN bad
        ELSE
        LET mi == NumericIdentifier(t, ma.next + 1)
        IN  IF ~mi.ok \/ mi.next > Len(t) \/ t[mi.next] # "." THEN bad
            ELSE
            LET pa == NumericIdentifier(t, mi.next + 1)
            IN  IF ~pa.ok THEN bad
                ELSE
                LET pre == OptionalPart(t, pa.next, "-", TRUE)
                IN  IF ~pre.ok THEN bad
                    ELSE
                    LET build == OptionalPart(t, pre.next, "+", FALSE)
                    IN  IF ~build.ok \/ build.next <= Len(t) THEN bad
                        ELSE [ok |-> TRUE,
                              v |-> Version(ma.v, mi.v, pa.v, pre.v, build.v)]

\* Variant: only major.minor.patch is written.
VersionToTextCore(v) ==
    NatToText(v.major) \o <<".">> \o NatToText(v.minor) \o <<".">>
        \o NatToText(v.patch)

\* <Version as Display>::fmt
VersionToText(v) ==
    NatToText(v.major) \o <<".">> \o NatToText(v.minor) \o <<".">>
        \o NatToText(v.patch)
        \o (IF v.pre = <<>> THEN <<>> ELSE <<"-">> \o v.pre)
        \o (IF v.build = <<>> THEN <<>> ELSE <<"+">> \o v.build)

\* ---- uuid::Uuid / AgentId ----
\* A Uuid is its sequence of lower-case hex digits. The model keeps UuidHexLen
\* digits in two groups in place of the 32 digits in groups 8-4-4-4-12.

UuidGroup(u) == (Len(u) + 1) \div 2

\* <Uuid as Display>::fmt : hyphenated, lower case
UuidToText(u) ==
    SubSeq(u, 1, UuidGroup(u)) \o <<"-">> \o SubSeq(u, UuidGroup(u) + 1, Len(u))

\* Uuid::from_str : the simple and the hyphenated form
ParseUuid(t, n) ==
    LET g == (n + 1) \div 2
        simple == Len(t) = n /\ \A k \in 1..n : t[k] \in HexLower
        hyphenated ==
            /\ Len(t) = n + 1
            /\ t[g + 1] = "-"
            /\ \A k \in 1..(n + 1) : k # g + 1 => t[k] \in HexLower
    IN  IF simple THEN [ok |-> TRUE, v |-> t]
        ELSE IF hyphenated
        THEN [ok |-> TRUE, v |-> SubSeq(t, 1, g) \o SubSeq(t, g + 2, n + 1)]
        ELSE [ok |-> FALSE, v |-> <<>>]

\* ---- core::net::IpAddr (V4) ----

\* <Ipv4Addr as Display>::fmt
IpToText(ip) == Join([k \in 1..Len(ip) |-> NatToText(ip[k])], ".")

\* <IpAddr as FromStr>::from_str : four decimal octets, no leading zero
ParseIp(t) ==
    LET segs == Split(t, ".")
        okSeg(x) == /\ Len(x) \in 1..3
                    /\ AllDigits(x)
                    /\ (Len(x) > 1 => x[1] # "0")
                    /\ TextToNat(x) <= 255
    IN  IF Len(segs) = 4 /\ \A k \in 1..4 : okSeg(segs[k])
        THEN [ok |-> TRUE, v |-> [k \in 1..4 |-> TextToNat(segs[k])]]
        ELSE [ok |-> FALSE, v |-> <<>>]

\* ---- Auth, LocalInfo, ServiceInfo, Encryption ----

AuthAnonymous == [tag |-> "Anonymous", key |-> ""]
AuthKey(s) == [tag |-> "Key", key |-> s]

\* impl Default for Auth (#[default] Anonymous)
DefaultAuth == AuthAnonymous

\* impl From<&str> for Auth
AuthFromStr(s) == AuthKey(s)

LocalInfo(ip, port) == [ip |-> ip, port |-> port]
ServiceInfo(ip, port) == [target_ip |-> ip, target_port |-> port]
Encryption(method, key) == [method |-> method, key |-> key]

Loopback == <<127, 0, 0, 1>>
DefaultPort == 8080

\* impl Default for LocalInfo
DefaultLocalInfo == LocalInfo(Loopback, DefaultPort)

\* impl Default for ServiceInfo
DefaultServiceInfo == ServiceInfo(Loopback, DefaultPort)

\* ---- AgentHandshake and AgentHandshakeBuilder ----

AgentHandshake(agent_id, agent_name, auth, version, local_info, service_info, encryption, heartbeat_interval, timestamp) ==
    [agent_id |-> agent_id, agent_name |-> agent_name, auth |-> auth,
     version |-> version, local_info |-> local_info,
     service_info |-> service_info, encryption |-> encryption,
     heartbeat_interval |-> heartbeat_interval, timestamp |-> timestamp]

\* Variant: the optional descriptors default to their own Default values.
DefaultHandshakeWithDescriptors(fresh) ==
    AgentHandshake(fresh, None, DefaultAuth, None, Some(DefaultLocalInfo),
                   Some(DefaultServiceInfo), None, 0, 0)

\* #[derive(Default)] for AgentHandshake; AgentId::default() is
\* Uuid::new_v4(), the random identity fresh.
DefaultHandshake(fresh) ==
    AgentHandshake(fresh, None, DefaultAuth, None, None, None, None, 0, 0)

\* AgentHandshakeBuilder::default() : no field set
EmptyBuilder ==
    [agent_id |-> None, agent_name |-> None, auth |-> None, version |-> None,
     local_info |-> None, service_info |-> None, encryption |-> None,
     heartbeat_interval |-> None, timestamp |-> None]

\* One field of build(): the value set, or the field of the default struct.
FieldOr(set, default) == IF set = None THEN default ELSE set[1]

\* A build() that draws a new agent id even when one was set.
BuildFromFreshId(b, d) ==
    AgentHandshake(d.agent_id,
                   FieldOr(b.agent_name, d.agent_name),
                   FieldOr(b.auth, d.auth),
                   FieldOr(b.version, d.version),
                   FieldOr(b.local_info, d.local_info),
                   FieldOr(b.service_info, d.service_info),
                   FieldOr(b.encryption, d.encryption),
                   FieldOr(b.heartbeat_interval, d.heartbeat_interval),
                   FieldOr(b.timestamp, d.timestamp))

\* AgentHandshakeBuilder::build with #[builder(default)] on the struct
BuildFrom(b, d) ==
    AgentHandshake(FieldOr(b.agent_id, d.agent_id),
                   FieldOr(b.agent_name, d.agent_name),
                   FieldOr(b.auth, d.auth),
                   FieldOr(b.version, d.version),
                   FieldOr(b.local_info, d.local_info),
                   FieldOr(b.service_info, d.service_info),
                   FieldOr(b.encryption, d.encryption),
                   FieldOr(b.heartbeat_interval, d.heartbeat_interval),
                   FieldOr(b.timestamp, d.timestamp))

\* ---- serde_json encoding ----
\* A JSON value is <<"null">>, <<"str", s>>, <<"num", n>> or <<"obj", fields>>.

JNull == <<"null">>
JStr(s) == <<"str", s>>
JNum(n) == <<"num", n>>
JObj(fields) == <<"obj", fields>>

Is(j, tag) == j[1] = tag
HasKey(j, k) == Is(j, "obj") /\ k \in DOMAIN j[2]

DecFail == [ok |-> FALSE, v |-> <<>>]
DecOk(v) == [ok |-> TRUE, v |-> v]

\* Serialize for Option<T>: null, or the encoding some of the value
EncodeOption(o, some) == IF o = None THEN JNull ELSE some

\* Deserialize for an Option<T> field: a missing key and null are None;
\* r is what the field's deserializer makes of the value
DecodeOptionField(j, k, r) ==
    IF ~HasKey(j, k) \/ Is(j[2][k], "null")
    THEN DecOk(None)
    ELSE IF r.ok THEN DecOk(Some(r.v)) ELSE DecFail

\* Deserialize for a required field; r is what the field's deserializer makes
\* of the value
DecodeField(j, k, r) == IF HasKey(j, k) THEN r ELSE DecFail

EncodeString(s) == JStr(s)
DecodeString(j) == IF Is(j, "str") THEN DecOk(j[2]) ELSE DecFail

\* u16 / u32 / u64
MaxU16 == 65535
EncodeNum(n) == JNum(n)
DecodeNum(j) == IF Is(j, "num") /\ j[2] >= 0 THEN DecOk(j[2]) ELSE DecFail
DecodeU16(j) == IF Is(j, "num") /\ j[2] \in 0..MaxU16 THEN DecOk(j[2]) ELSE DecFail

\* #[serde(transparent)] AgentId(Uuid)
EncodeAgentId(u) == JStr(UuidToText(u))
DecodeAgentId(j) ==
    IF Is(j, "str")
    THEN LET r == ParseUuid(j[2], UuidHexLen)
         IN  IF r.ok THEN DecOk(r.v) ELSE DecFail
    ELSE DecFail

\* #[derive(Serialize)] enum Auth : "Anonymous" or {"Key": s}
EncodeAuth(a) ==
    IF a.tag = "Key" THEN JObj([Key |-> JStr(a.key)]) ELSE JStr("Anonymous")

\* #[derive(Deserialize)] enum Auth
DecodeAuth(j) ==
    IF Is(j, "str")
    THEN IF j[2] = "Anonymous" THEN DecOk(AuthAnonymous) ELSE DecFail
    ELSE IF Is(j, "obj") /\ DOMAIN j[2] = {"Key"} /\ Is(j[2].Key, "str")
    THEN DecOk(AuthKey(j[2].Key[2]))
    ELSE IF Is(j, "obj") /\ DOMAIN j[2] = {"Anonymous"} /\ Is(j[2].Anonymous, "null")
    THEN DecOk(AuthAnonymous)
    ELSE DecFail

\* semver's serde impls: the Display text, parsed back
EncodeVersion(v) == JStr(VersionToText(v))
DecodeVersion(j) ==
    IF Is(j, "str")
    THEN LET r == ParseVersion(j[2]) IN IF r.ok THEN DecOk(r.v) ELSE DecFail
    ELSE DecFail

\* IpAddr's serde impls for a human readable format: the Display text
EncodeIp(ip) == JStr(IpToText(ip))
DecodeIp(j) ==
    IF Is(j, "str")
    THEN LET r == ParseIp(j[2]) IN IF r.ok THEN DecOk(r.v) ELSE DecFail
    ELSE DecFail

EncodeLocalInfo(l) == JObj([ip |-> EncodeIp(l.ip), port |-> EncodeNum(l.port)])
DecodeLocalInfo(j) ==
    LET ip == DecodeField(j, "ip", DecodeIp(j[2].ip))
        port == DecodeField(j, "port", DecodeU16(j[2].port))
    IN  IF ip.ok /\ port.ok THEN DecOk(LocalInfo(ip.v, port.v)) ELSE DecFail

EncodeServiceInfo(x) ==
    JObj([target_ip |-> EncodeIp(x.target_ip),
          target_port |-> EncodeNum(x.target_port)])
DecodeServiceInfo(j) ==
    LET ip == DecodeField(j, "target_ip", DecodeIp(j[2].target_ip))
        port == DecodeField(j, "target_port", DecodeU16(j[2].target_port))
    IN  IF ip.ok /\ port.ok THEN DecOk(ServiceInfo(ip.v, port.v)) ELSE DecFail

EncodeEncryption(e) ==
    JObj([method |-> EncodeString(e.method), key |-> EncodeString(e.key)])
DecodeEncryption(j) ==
    LET m == DecodeField(j, "method", DecodeString(j[2].method))
        k == DecodeField(j, "key", DecodeString(j[2].key))
    IN  IF m.ok /\ k.ok THEN DecOk(Encryption(m.v, k.v)) ELSE DecFail

\* serde_json::to_string(&handshake)
EncodeHandshake(h) ==
    JObj([agent_id |-> EncodeAgentId(h.agent_id),
          agent_name |-> EncodeOption(h.agent_name, EncodeString(h.agent_name[1])),
          auth |-> EncodeAuth(h.auth),
          version |-> EncodeOption(h.version, EncodeVersion(h.version[1])),
          local_info |-> EncodeOption(h.local_info, EncodeLocalInfo(h.local_info[1])),
          service_info |-> EncodeOption(h.service_info, EncodeServiceInfo(h.service_info[1])),
          encryption |-> EncodeOption(h.encryption, EncodeEncryption(h.encryption[1])),
          heartbeat_interval |-> EncodeNum(h.heartbeat_interval),
          timestamp |-> EncodeNum(h.timestamp)])

\* serde_json::from_str::<AgentHandshake>
DecodeHandshake(j) ==
    LET id == DecodeField(j, "agent_id", DecodeAgentId(j[2].agent_id))
        name == DecodeOptionField(j, "agent_name", DecodeString(j[2].agent_name))
        auth == DecodeField(j, "auth", DecodeAuth(j[2].auth))
        ver == DecodeOptionField(j, "version", DecodeVersion(j[2].version))
        local == DecodeOptionField(j, "local_info", DecodeLocalInfo(j[2].local_info))
        service == DecodeOptionField(j, "service_info", DecodeServiceInfo(j[2].service_info))
        enc == DecodeOptionField(j, "encryption", DecodeEncryption(j[2].encryption))
        hb == DecodeField(j, "heartbeat_interval", DecodeNum(j[2].heartbeat_interval))
        ts == DecodeField(j, "timestamp", DecodeNum(j[2].timestamp))
    IN  IF /\ id.ok /\ name.ok /\ auth.ok /\ ver.ok /\ local.ok
           /\ service.ok /\ enc.ok /\ hb.ok /\ ts.ok
        THEN DecOk(AgentHandshake(id.v, name.v, auth.v, ver.v, local.v,
                                  service.v, enc.v, hb.v, ts.v))
        ELSE DecFail

\* ---- the values the handshake code is run on ----

Uuids ==
    {[k \in 1..UuidHexLen |-> "0"],
     [k \in 1..UuidHexLen |-> IF k % 2 = 1 THEN "a" ELSE "7"]}

\* Arguments of agent_id(&str): both text forms of a Uuid, and the
\* "agent-123" of the tests.
AgentIdTexts ==
    {UuidToText(u) : u \in Uuids} \cup Uuids
        \cup {<<"a", "g", "e", "n", "t", "-", "1", "2", "3">>}

\* Arguments of version(&str).
VersionTexts ==
    {<<"1", ".", "0", ".", "0">>,
     <<"0", ".", "1", "0", ".", "2">>,
     <<"1", ".", "0", ".", "0", "-", "r", "c", ".", "1", "+", "b", "0", "7">>,
     <<>>,
     <<"1">>,
     <<"1", ".", "0">>,
     <<"1", ".", "0", ".">>,
     <<"0", "1", ".", "0", ".", "0">>,
     <<"1", ".", ".", "0">>,
     <<"1", ".", "0", ".", "0", ".", "0">>,
     <<"1", ".", "0", ".", "0", "-">>,
     <<"1", ".", "0", ".", "0", "-", "0", "1">>,
     <<"1", ".", "0", ".", "0", "+">>,
     <<"x">>,
     <<" ", "1", ".", "0", ".", "0">>}

VersionValues ==
    {Version(1, 0, 0, <<>>, <<>>),
     Version(0, 10, 2, <<"r", "c", ".", "1">>, <<"b", "0", "7">>)}

Names == {"agent"}
KeyTexts == {"secret-key"}
Auths == {AuthAnonymous} \cup {AuthKey(s) : s \in KeyTexts}
LocalInfos == {LocalInfo(Loopback, DefaultPort)}
ServiceInfos == {ServiceInfo(<<192, 168, 0, 1>>, 9000)}
Encryptions == {Encryption("AES-256", "encryption-key")}
HeartbeatIntervals == {5000}
Timestamps == {1631234567}

Opt(S) == {None} \cup {Some(x) : x \in S}

\* Every AgentHandshake value over the sets above.
HandshakeValues ==
    [agent_id : Uuids, agent_name : Opt(Names), auth : Auths,
     version : Opt(VersionValues), local_info : Opt(LocalInfos),
     service_info : Opt(ServiceInfos), encryption : Opt(Encryptions),
     heartbeat_interval : {0} \cup HeartbeatIntervals,
     timestamp : {0} \cup Timestamps]

----------------------------------------------------------------------------
\* main.rs: the values of the process-wide state.

\* Keys of a registry (client ids, stream ids) and the handles stored under them.
RegKeys == {1, 2}
Handles == {"h1", "h2"}
NoHandle == "none"
EmptyRegistry == [k \in RegKeys |-> NoHandle]

\* The OnceLock statics.
Singletons == {"CLI", "CONNECTIONS", "ACTIVE_STREAMS", "CONFIG", "AUTH_DB_SERVICE"}
Tasks == 1..MaxTasks

\* The state of the process right after the binds of main (lines 75-118): the
\* listener is bound, the registries are empty, no task has started.
ServerQuiet ==
    /\ mainPc = "accept"
    /\ acceptLog = <<>>
    /\ connections = EmptyRegistry
    /\ active_streams = EmptyRegistry
    /\ history = <<>>
    /\ cell = [s \in Singletons |-> [st |-> "empty", inst |-> 0]]
    /\ task = [t \in Tasks |-> [stack |-> <<>>, calls |-> 0]]
    /\ got = [t \in Tasks |-> [s \in Singletons |-> 0]]
    /\ initRuns = [s \in Singletons |-> 0]

----------------------------------------------------------------------------
\* instance_for_host

\* No handshake is being made while the resolver is checked.
HandshakeQuiet ==
    /\ hpc = "off"
    /\ builder = EmptyBuilder
    /\ versionArg = None
    /\ agentIdArg = None
    /\ handshake = None
    /\ handshake2 = None
    /\ wire = None
    /\ decoded = None
    /\ panic = "none"

\* Initial state: the process is configured, instance_for_host(host) is called.
Init ==
    /\ gossip_dns_host \in {"None"} \cup DnsNames
    /\ resolverFault \in {"none", "conf", "lookup"}
    /\ discoveries = 0
    /\ discovery = "none"
    /\ host \in Hosts
    /\ pc = "start"
    /\ instances = <<>>
    /\ plan = <<>>
    /\ q = <<>>
    /\ inner = <<>>
    /\ result = NoResult
    /\ dnsLookups = 0
    /\ queriesSent = 0
    /\ firstPositive = 0
    /\ HandshakeQuiet
    /\ ServerQuiet

Return(r) ==
    /\ result' = r
    /\ pc' = "done"

\* get_instances with gossip disabled returns Ok(vec![]); instances.len() == 0.
CallGossipDisabled ==
    /\ pc = "start"
    /\ ~GossipQuery(gossip_dns_host).some
    /\ discoveries' = discoveries + 1
    /\ discovery' = "Ok"
    /\ instances' = <<>>
    /\ Return(Err(ErrDoesNotServeHost))
    /\ UNCHANGED <<hsvars, srvvars, firstPositive,
                     gossip_dns_host, resolverFault, host, plan, q, inner,
                   dnsLookups, queriesSent>>

\* TokioAsyncResolver::tokio_from_system_conf()? fails.
CallResolverConfFails ==
    /\ pc = "start"
    /\ GossipQuery(gossip_dns_host).some
    /\ resolverFault = "conf"
    /\ discoveries' = discoveries + 1
    /\ discovery' = "Err"
    /\ Return(Err(FromResolveError))
    /\ UNCHANGED <<hsvars, srvvars, firstPositive,
                     gossip_dns_host, resolverFault, host, instances, plan, q,
                   inner, dnsLookups, queriesSent>>

\* The resolver is built and resolver.lookup_ip(query) is awaited.
CallLookupIp ==
    /\ pc = "start"
    /\ GossipQuery(gossip_dns_host).some
    /\ resolverFault # "conf"
    /\ discoveries' = discoveries + 1
    /\ pc' = "lookup"
    /\ dnsLookups' = dnsLookups + 1
    /\ UNCHANGED <<hsvars, srvvars, firstPositive,
                     gossip_dns_host, resolverFault, discovery, host, instances,
                   plan, q, inner, result, queriesSent>>

\* resolver.lookup_ip(query).await? fails.
LookupFails ==
    /\ pc = "lookup"
    /\ resolverFault = "lookup"
    /\ discovery' = "Err"
    /\ Return(Err(FromResolveError))
    /\ UNCHANGED <<hsvars, srvvars, firstPositive,
                     gossip_dns_host, resolverFault, discoveries, host,
                   instances, plan, q, inner, dnsLookups, queriesSent>>

\* The lookup succeeds without any address record: instances.len() == 0.
LookupEmpty ==
    /\ pc = "lookup"
    /\ resolverFault = "none"
    /\ discovery' = "Ok"
    /\ instances' = <<>>
    /\ Return(Err(ErrDoesNotServeHost))
    /\ UNCHANGED <<hsvars, srvvars, firstPositive,
                     gossip_dns_host, resolverFault, discoveries, host, plan, q,
                   inner, dnsLookups, queriesSent>>

\* The lookup succeeds; select_ok is created over one serves_host future per
\* instance and polled for the first time, which sends every query.
LookupOk ==
    /\ pc = "lookup"
    /\ resolverFault = "none"
    /\ discovery' = "Ok"
    /\ \E ips \in DnsAnswers \ {<<>>} :
          /\ instances' = ips
          /\ \E p \in [1..Len(ips) -> Plans] : plan' = p
          /\ q' = [i \in 1..Len(ips) |-> NewQuery]
          /\ inner' = [i \in 1..Len(ips) |-> i]
          /\ queriesSent' = queriesSent + Len(ips)
    /\ pc' = "racing"
    /\ UNCHANGED <<hsvars, srvvars, firstPositive,
                     gossip_dns_host, resolverFault, discoveries, host, result,
                   dnsLookups>>

Active(i) == pc = "racing" /\ i \in DOMAIN q /\ q[i].phase \in {"send", "json"}

\* The response head (status line and headers) of query i arrives.
ResponseHead(i) ==
    /\ Active(i)
    /\ q[i].net = "none" /\ ~q[i].timer
    /\ q' = [q EXCEPT ![i].net = "head", ![i].status = plan[i].status]
    /\ UNCHANGED <<hsvars, srvvars, firstPositive,
                     gossip_dns_host, resolverFault, discoveries, discovery, host,
                   pc, instances, plan, inner, result, dnsLookups, queriesSent>>

\* The response body of query i has arrived completely.
ResponseBody(i) ==
    /\ Active(i)
    /\ plan[i].kind = "reply"
    /\ q[i].net = "head"
    /\ q' = [q EXCEPT ![i].net = "body", ![i].body = plan[i].body,
                       ![i].client = IF plan[i].body = "some"
                                     THEN ClientOf(instances[i])
                                     ELSE NoClient]
    /\ firstPositive' = IF /\ firstPositive = 0
                            /\ q[i].status = StatusOK
                            /\ plan[i].body = "some"
                         THEN i
                         ELSE firstPositive
    /\ UNCHANGED <<hsvars, srvvars,
                     gossip_dns_host, resolverFault, discoveries, discovery, host,
                   pc, instances, plan, inner, result, dnsLookups, queriesSent>>

\* Query i fails at transport level (connect, send, or while reading the body).
TransportError(i) ==
    /\ Active(i)
    /\ plan[i].kind = "error"
    /\ q[i].net \in {"none", "head"}
    /\ q' = [q EXCEPT ![i].net = "err"]
    /\ UNCHANGED <<hsvars, srvvars, firstPositive,
                     gossip_dns_host, resolverFault, discoveries, discovery, host,
                   pc, instances, plan, inner, result, dnsLookups, queriesSent>>

\* The 2 second timeout of query i expires.
Timeout(i) ==
    /\ Active(i)
    /\ plan[i].kind = "timeout"
    /\ ~q[i].timer
    /\ q' = [q EXCEPT ![i].timer = TRUE]
    /\ UNCHANGED <<hsvars, srvvars, firstPositive,
                     gossip_dns_host, resolverFault, discoveries, discovery, host,
                   pc, instances, plan, inner, result, dnsLookups, queriesSent>>

\* Variant: when every query has failed, the queries are sent once more.
PollWithRetry ==
    /\ pc = "racing"
    /\ LET r == SelectOkPoll(instances, q, inner)
       IN  /\ r.q # q
           /\ IF r.out.kind = "Err"
              THEN /\ q' = [i \in DOMAIN q |-> NewQuery]
                   /\ inner' = [i \in DOMAIN q |-> i]
                   /\ queriesSent' = queriesSent + Len(instances)
                   /\ UNCHANGED <<pc, result>>
              ELSE /\ q' = r.q
                   /\ inner' = r.inner
                   /\ UNCHANGED queriesSent
                   /\ IF r.out.kind = "none"
                      THEN UNCHANGED <<pc, result>>
                      ELSE Return(r.out)
    /\ UNCHANGED <<hsvars, srvvars, firstPositive,
                     gossip_dns_host, resolverFault, discoveries, discovery, host,
                   instances, plan, dnsLookups>>

\* The task is woken and select_ok(instances).await is polled.
Poll ==
    /\ pc = "racing"
    /\ LET r == SelectOkPoll(instances, q, inner)
       IN  /\ r.q # q
           /\ q' = r.q
           /\ inner' = r.inner
           /\ IF r.out.kind = "none"
              THEN UNCHANGED <<pc, result>>
              ELSE Return(r.out)
    /\ UNCHANGED <<hsvars, srvvars, firstPositive,
                     gossip_dns_host, resolverFault, discoveries, discovery, host,
                   instances, plan, dnsLookups, queriesSent>>

Next ==
    \/ CallGossipDisabled
    \/ CallResolverConfFails
    \/ CallLookupIp
    \/ LookupFails
    \/ LookupEmpty
    \/ LookupOk
    \/ \E i \in 1..MaxInstances : ResponseHead(i)
    \/ \E i \in 1..MaxInstances : ResponseBody(i)
    \/ \E i \in 1..MaxInstances : TransportError(i)
    \/ \E i \in 1..MaxInstances : Timeout(i)
    \/ Poll

Spec == Init /\ [][Next]_vars

\* Some future of the race makes progress when polled: its waker has woken
\* the task. This is the enabling condition of Poll.
ReadyToPoll ==
    \E k \in 1..Len(inner) :
        LET f == q[inner[k]]
        IN  /\ f.phase \in {"send", "json"}
            /\ \/ f.timer
               \/ f.net \in {"err", "body"}
               \/ f.net = "head" /\ f.phase = "send"

\* A step that polls the race: Poll is the only action that moves a future on.
PollStep == pc = "racing" /\ \E i \in DOMAIN q : q'[i].phase # q[i].phase

\* Scheduling: get_instances returns (the resolver answers or fails), every
\* query gets its response, its transport error or its 2 second timeout, and
\* a woken task is polled. The last conjunct is WF_vars(Poll) written out
\* with Poll's enabling condition ReadyToPoll.
Fairness ==
    /\ WF_vars(CallGossipDisabled \/ CallResolverConfFails \/ CallLookupIp
                 \/ LookupFails \/ LookupEmpty \/ LookupOk)
    /\ \A i \in 1..MaxInstances :
          WF_vars(ResponseHead(i) \/ ResponseBody(i) \/ TransportError(i)
                    \/ Timeout(i))
    /\ ([]<>(~(pc = "racing" /\ ReadyToPoll)) \/ []<><<PollStep>>_vars)

SpecLive == Spec /\ Fairness

----------------------------------------------------------------------------
\* Making a handshake (builder or struct literal), encoding and decoding it.

\* The resolver is not running while the handshake code is checked.
NetQuiet ==
    /\ gossip_dns_host = "None"
    /\ resolverFault = "none"
    /\ discoveries = 0
    /\ discovery = "none"
    /\ host \in Hosts
    /\ pc = "off"
    /\ instances = <<>>
    /\ plan = <<>>
    /\ q = <<>>
    /\ inner = <<>>
    /\ result = NoResult
    /\ dnsLookups = 0
    /\ queriesSent = 0
    /\ firstPositive = 0

\* AgentHandshake::builder()
InitHandshake ==
    /\ NetQuiet
    /\ ServerQuiet
    /\ hpc = "building"
    /\ builder = EmptyBuilder
    /\ versionArg = None
    /\ agentIdArg = None
    /\ handshake = None
    /\ handshake2 = None
    /\ wire = None
    /\ decoded = None
    /\ panic = "none"

Building == hpc = "building"

\* A derived setter: self.field = Some(value.into())
Set(field, value) ==
    /\ Building
    /\ builder' = [builder EXCEPT ![field] = Some(value)]
    /\ UNCHANGED <<netvars, srvvars, agentIdArg, handshake2, hpc, versionArg,
                   handshake, wire, decoded, panic>>

\* A failed unwrap(): the thread panics.
Panic(where) ==
    /\ hpc' = "panicked"
    /\ panic' = where
    /\ UNCHANGED <<netvars, srvvars, agentIdArg, handshake2,
                     builder, versionArg, handshake, wire, decoded>>

\* agent_id(value) : self.agent_id = Some(value.into()); arg is the text the
\* value was converted from, if it was a text.
PutAgentId(u, arg) ==
    /\ Building
    /\ builder' = [builder EXCEPT !.agent_id = Some(u)]
    /\ agentIdArg' = arg
    /\ UNCHANGED <<netvars, srvvars, handshake2, hpc, versionArg, handshake, wire,
                   decoded, panic>>

\* agent_id(value) with a Uuid or an AgentId
SetAgentId(u) == PutAgentId(u, None)

\* agent_id(text) : impl From<&str> for AgentId is Uuid::from_str(s).unwrap()
SetAgentIdStr(t) ==
    /\ Building
    /\ LET r == ParseUuid(t, UuidHexLen)
       IN  IF r.ok THEN PutAgentId(r.v, Some(t)) ELSE Panic("agent_id")

\* generate_agent_id() : AgentId::default() is a fresh random Uuid
GenerateAgentId == \E fresh \in Uuids : PutAgentId(fresh, None)

SetAgentName(n) == Set("agent_name", Some(n))

SetAuth(a) == Set("auth", a)

\* auth(text) : impl From<&str> for Auth
SetAuthStr(s) == Set("auth", AuthFromStr(s))

\* version(text) : self.version = Some(Some(version.parse().unwrap()))
SetVersion(t) ==
    /\ Building
    /\ LET r == ParseVersion(t)
       IN  IF r.ok
           THEN /\ builder' = [builder EXCEPT !.version = Some(Some(r.v))]
                /\ versionArg' = Some(t)
                /\ UNCHANGED <<netvars, srvvars, agentIdArg, handshake2,
                                 hpc, handshake, wire, decoded, panic>>
           ELSE Panic("version")

SetLocalInfo(l) == Set("local_info", Some(l))
SetServiceInfo(x) == Set("service_info", Some(x))
SetEncryption(e) == Set("encryption", Some(e))
SetHeartbeatInterval(n) == Set("heartbeat_interval", n)
SetTimestamp(n) == Set("timestamp", n)

\* build() : every unset field comes from AgentHandshake::default()
Build ==
    /\ Building
    /\ \E fresh \in Uuids :
          handshake' = Some(BuildFrom(builder, DefaultHandshake(fresh)))
    /\ hpc' = "built"
    /\ UNCHANGED <<netvars, srvvars, agentIdArg, handshake2,
                     builder, versionArg, wire, decoded, panic>>

\* build() called once more on the same builder: build(&self) leaves it as is.
Rebuild ==
    /\ hpc = "built"
    /\ handshake2 = None
    /\ \E fresh \in Uuids :
          handshake2' = Some(BuildFrom(builder, DefaultHandshake(fresh)))
    /\ UNCHANGED <<netvars, srvvars, agentIdArg, hpc, builder, versionArg, handshake,
                   wire, decoded, panic>>

\* AgentHandshake { agent_id, agent_name, ... } written out field by field
Construct ==
    /\ Building
    /\ builder = EmptyBuilder
    /\ \E h \in HandshakeValues : handshake' = Some(h)
    /\ hpc' = "constructed"
    /\ UNCHANGED <<netvars, srvvars, agentIdArg, handshake2,
                     builder, versionArg, wire, decoded, panic>>

\* serde_json::to_string(&handshake).unwrap()
Encode ==
    /\ hpc \in {"built", "constructed"}
    /\ wire' = Some(EncodeHandshake(handshake[1]))
    /\ hpc' = "encoded"
    /\ UNCHANGED <<netvars, srvvars, agentIdArg, handshake2,
                     builder, versionArg, handshake, decoded, panic>>

\* serde_json::from_str(&serialized)
Decode ==
    /\ hpc = "encoded"
    /\ decoded' = Some(DecodeHandshake(wire[1]))
    /\ hpc' = "decoded"
    /\ UNCHANGED <<netvars, srvvars, agentIdArg, handshake2,
                     builder, versionArg, handshake, wire, panic>>

NextHandshake ==
    \/ \E u \in Uuids : SetAgentId(u)
    \/ \E t \in AgentIdTexts : SetAgentIdStr(t)
    \/ GenerateAgentId
    \/ \E n \in Names : SetAgentName(n)
    \/ \E a \in Auths : SetAuth(a)
    \/ \E s \in KeyTexts : SetAuthStr(s)
    \/ \E t \in VersionTexts : SetVersion(t)
    \/ \E l \in LocalInfos : SetLocalInfo(l)
    \/ \E x \in ServiceInfos : SetServiceInfo(x)
    \/ \E e \in Encryptions : SetEncryption(e)
    \/ \E n \in HeartbeatIntervals : SetHeartbeatInterval(n)
    \/ \E n \in Timestamps : SetTimestamp(n)
    \/ Build
    \/ Rebuild
    \/ Construct
    \/ Encode
    \/ Decode

SpecHandshake == InitHandshake /\ [][NextHandshake]_vars

----------------------------------------------------------------------------
\* main.rs: the accept loop, the registries and the singletons.

\* The state after main has bound the listener; neither the resolver nor the
\* handshake code is running.
InitServer ==
    /\ NetQuiet
    /\ HandshakeQuiet
    /\ ServerQuiet

\* ---- the accept loop of the public listener (lines 120-137) ----

\* listener.accept().await is Err(e): error!(..) and continue.
AcceptFails ==
    /\ mainPc = "accept"
    /\ Len(acceptLog) < MaxAccepts
    /\ acceptLog' = Append(acceptLog, "error logged")
    /\ UNCHANGED <<netvars, hsvars, mainPc, connections, active_streams, history,
                   cell, task, got, initRuns>>

\* listener.accept().await is Ok((socket, _)) and socket.peer_addr() is Ok: the
\* peer is logged and remote::accept_connection(socket) is spawned.
AcceptSpawns ==
    /\ mainPc = "accept"
    /\ Len(acceptLog) < MaxAccepts
    /\ acceptLog' = Append(acceptLog, "spawned")
    /\ UNCHANGED <<netvars, hsvars, mainPc, connections, active_streams, history,
                   cell, task, got, initRuns>>

\* listener.accept().await is Ok((socket, _)) and socket.peer_addr() is Err (the
\* peer has reset the connection already): unwrap() panics in the main task.
AcceptPeerAddrFails ==
    /\ mainPc = "accept"
    /\ Len(acceptLog) < MaxAccepts
    /\ acceptLog' = Append(acceptLog, "peer_addr panic")
    /\ mainPc' = "panicked"
    /\ UNCHANGED <<netvars, hsvars, connections, active_streams, history, cell, task,
                   got, initRuns>>

NextAccept ==
    \/ AcceptFails
    \/ AcceptSpawns
    \/ AcceptPeerAddrFails

SpecAccept == InitServer /\ [][NextAccept]_vars

\* ---- the registries CONNECTIONS and ACTIVE_STREAMS (lines 56-62) ----

\* A registry that keeps the handle a key was first registered with.
MapInsertIfAbsent(m, k, h) == IF m[k] = NoHandle THEN [m EXCEPT ![k] = h] ELSE m

\* DashMap::insert : the value replaces the one stored under the key.
MapInsert(m, k, h) == [m EXCEPT ![k] = h]

\* DashMap::remove : the entry of the key, if there is one, is taken out.
MapRemove(m, k) == [m EXCEPT ![k] = NoHandle]

\* DashMap::get
MapGet(m, k) == m[k]

\* get_connections() / get_active_streams()
Registry(r) == IF r = "connections" THEN connections ELSE active_streams

\* One operation on registry r is done: the map is now m, and the operation is
\* entered in the history with what it returned.
Commit(r, m, entry) ==
    /\ Len(history) < MaxOps
    /\ connections' = IF r = "connections" THEN m ELSE connections
    /\ active_streams' = IF r = "active_streams" THEN m ELSE active_streams
    /\ history' = Append(history, entry)
    /\ UNCHANGED <<netvars, hsvars, mainPc, acceptLog, cell, task, got, initRuns>>

\* register(id, handle)
Register(r, k, h) ==
    Commit(r, MapInsert(Registry(r), k, h),
           [reg |-> r, op |-> "register", key |-> k, handle |-> h, ret |-> NoHandle])

\* lookup(id) -> optional handle
Lookup(r, k) ==
    Commit(r, Registry(r),
           [reg |-> r, op |-> "lookup", key |-> k, handle |-> NoHandle,
            ret |-> MapGet(Registry(r), k)])

\* remove(id)
Remove(r, k) ==
    Commit(r, MapRemove(Registry(r), k),
           [reg |-> r, op |-> "remove", key |-> k, handle |-> NoHandle,
            ret |-> MapGet(Registry(r), k)])

NextRegistry ==
    \E r \in {"connections", "active_streams"}, k \in RegKeys :
        \/ \E h \in Handles : Register(r, k, h)
        \/ Lookup(r, k)
        \/ Remove(r, k)

SpecRegistry == InitServer /\ [][NextRegistry]_vars

\* ---- the OnceLock singletons (lines 46-73) ----

\* A get_or_init that tests the cell and initialises it without the cell's lock.
CanRunInitUnlocked(c) == c.st # "set"

\* OnceLock::get_or_init : the caller runs the initialiser when the cell is
\* empty and no other caller is running one.
CanRunInit(c) == c.st = "empty"

\* The get_or_init call task t is in: the top of its stack.
Top(t) == task[t].stack[Len(task[t].stack)]

\* The number of getter calls tasks 1..n have made.
RECURSIVE CallsMade(_)
CallsMade(n) == IF n = 0 THEN 0 ELSE task[n].calls + CallsMade(n - 1)

\* Task t calls get_cli(), get_connections(), get_active_streams(), get_config()
\* or get_auth_db_service().
CallGetter(t, s) ==
    /\ task[t].stack = <<>>
    /\ CallsMade(MaxTasks) < MaxCalls
    /\ task' = [task EXCEPT ![t] = [stack |-> <<[s |-> s, pos |-> "call"]>>,
                                    calls |-> @.calls + 1]]
    /\ UNCHANGED <<netvars, hsvars, mainPc, acceptLog, connections, active_streams,
                   history, cell, got, initRuns>>

\* The cell is empty: task t runs the initialiser. The one of CONFIG starts
\* with a call of get_cli().
BeginInit(t) ==
    /\ task[t].stack # <<>>
    /\ Top(t).pos = "call"
    /\ CanRunInit(cell[Top(t).s])
    /\ cell' = [cell EXCEPT ![Top(t).s].st = "running"]
    /\ LET n == Len(task[t].stack)
           running == [task[t].stack EXCEPT ![n].pos = "init"]
       IN  task' = [task EXCEPT ![t].stack =
                        IF Top(t).s = "CONFIG"
                        THEN Append(running, [s |-> "CLI", pos |-> "call"])
                        ELSE running]
    /\ UNCHANGED <<netvars, hsvars, mainPc, acceptLog, connections, active_streams,
                   history, got, initRuns>>

\* Another task is running the initialiser: task t blocks in get_or_init.
Wait(t) ==
    /\ task[t].stack # <<>>
    /\ Top(t).pos = "call"
    /\ cell[Top(t).s].st = "running"
    /\ task' = [task EXCEPT ![t].stack[Len(task[t].stack)].pos = "wait"]
    /\ UNCHANGED <<netvars, hsvars, mainPc, acceptLog, connections, active_streams,
                   history, cell, got, initRuns>>

\* The initialiser task t runs returns: its value is stored in the cell and
\* get_or_init returns a reference to it.
FinishInit(t) ==
    /\ task[t].stack # <<>>
    /\ Top(t).pos = "init"
    /\ LET s == Top(t).s
           inst == initRuns[s] + 1
       IN  /\ initRuns' = [initRuns EXCEPT ![s] = inst]
           /\ cell' = [cell EXCEPT ![s] = [st |-> "set", inst |-> inst]]
           /\ got' = [got EXCEPT ![t][s] = inst]
    /\ task' = [task EXCEPT ![t].stack = SubSeq(@, 1, Len(@) - 1)]
    /\ UNCHANGED <<netvars, hsvars, mainPc, acceptLog, connections, active_streams,
                   history>>

\* The cell is set: get_or_init returns a reference to the stored value.
GetReturns(t) ==
    /\ task[t].stack # <<>>
    /\ Top(t).pos \in {"call", "wait"}
    /\ cell[Top(t).s].st = "set"
    /\ got' = [got EXCEPT ![t][Top(t).s] = cell[Top(t).s].inst]
    /\ task' = [task EXCEPT ![t].stack = SubSeq(@, 1, Len(@) - 1)]
    /\ UNCHANGED <<netvars, hsvars, mainPc, acceptLog, connections, active_streams,
                   history, cell, initRuns>>

NextOnce ==
    \E t \in Tasks :
        \/ \E s \in Singletons : CallGetter(t, s)
        \/ BeginInit(t)
        \/ Wait(t)
        \/ FinishInit(t)
        \/ GetReturns(t)

SpecOnce == InitServer /\ [][NextOnce]_vars

----------------------------------------------------------------------------
\* Properties of the host resolver (checked under Spec).

\* Instance i answers the host query positively: 200 with a present client id,
\* within the 2 second bound.
PositiveAt(i) ==
    /\ plan[i].kind = "reply"
    /\ plan[i].status = StatusOK
    /\ plan[i].body = "some"

Returned == pc = "done"
Raced == Returned /\ instances # <<>>

\* C1: with N >= 1 discovered instances of which exactly one answers
\* positively, a returned instance_for_host call returned Ok with exactly that
\* instance and the client id it reported, wherever the instance stands in the
\* sequence and however the queries interleave.
C1_SinglePositiveWins ==
    \A i \in DOMAIN plan :
        (/\ Raced
         /\ PositiveAt(i)
         /\ \A j \in DOMAIN plan \ {i} : ~PositiveAt(j))
        => result = Ok(instances[i], ClientOf(instances[i]))

\* C1 witness: two instances, the second one is the only positive one and the
\* first one's negative answer was seen before the call returned it.
C1_Witness ==
    /\ Raced
    /\ Len(instances) >= 2
    /\ PositiveAt(2) /\ ~PositiveAt(1)
    /\ q[1].phase = "done" /\ q[1].res.kind = "Err"
    /\ result = Ok(instances[2], ClientOf(instances[2]))
    /\ instances[2] # 2

\* C2: when every query of a call is negative, the call fails with
\* DoesNotServeHost and with no other error kind.
C2_AllNegativeIsDoesNotServeHost ==
    (Raced /\ \A i \in DOMAIN plan : ~PositiveAt(i))
        => result = Err(ErrDoesNotServeHost)

\* C3: with no discovery name configured, no DNS lookup and no host query is
\* ever issued, get_instances returns Ok with no instance, and the call fails
\* with DoesNotServeHost.
C3_GossipDisabledNoNetwork ==
    gossip_dns_host = "None"
        => /\ dnsLookups = 0
           /\ queriesSent = 0
           /\ q = <<>>
           /\ pc \in {"start", "done"}
           /\ Returned => /\ discovery = "Ok"
                           /\ instances = <<>>
                           /\ result = Err(ErrDoesNotServeHost)

C3_Witness ==
    /\ gossip_dns_host = "None"
    /\ Returned
    /\ result = Err(ErrDoesNotServeHost)

\* C4: a query that runs into its 2 second timeout counts as a negative
\* answer: when another instance answers positively the call returns Ok with
\* a positive instance and its client id.
C4_TimeoutIsNegative ==
    (/\ Raced
     /\ \E i \in DOMAIN plan : plan[i].kind = "timeout"
     /\ \E j \in DOMAIN plan : PositiveAt(j))
        => \E j \in DOMAIN plan :
              /\ PositiveAt(j)
              /\ result = Ok(instances[j], ClientOf(instances[j]))

\* C4 witness: the first query timed out and was seen to fail, the second
\* one won the race.
C4_Witness ==
    /\ Raced
    /\ Len(instances) >= 2
    /\ plan[1].kind = "timeout" /\ q[1].timer
    /\ q[1].res = Err(ErrRequest)
    /\ PositiveAt(2)
    /\ result = Ok(instances[2], ClientOf(instances[2]))

\* C5: a completed serves_host future is Ok((instance, client_id)) exactly when
\* the request ran without transport error or timeout, the status is 200 and
\* the decoded body carries a client id; in every other case it is an error.
C5_ServesHostOkIff ==
    \A i \in DOMAIN q :
        q[i].phase = "done"
        => LET positive == /\ ~q[i].timer
                           /\ q[i].net = "body"
                           /\ q[i].status = StatusOK
                           /\ q[i].body = "some"
           IN  /\ positive => q[i].res = Ok(instances[i], q[i].client)
               /\ ~positive => /\ q[i].res.kind = "Err"
                                /\ q[i].res.err \in ErrorKinds

\* C5 witness: one query completed Ok, another one completed with an error
\* although its body carried a client id (status 404).
C5_Witness ==
    \E i, j \in DOMAIN q :
        /\ q[i].phase = "done" /\ q[i].res.kind = "Ok"
        /\ q[j].phase = "done" /\ q[j].res.kind = "Err"
        /\ q[j].status = StatusNotFound /\ q[j].body = "some"

\* C6: a failing query never aborts the resolution: once queries were issued,
\* the call returns an error only when every query of the call has completed
\* with a negative result (none is still in flight, none was abandoned).
C6_ErrOnlyAfterAllNegative ==
    (Raced /\ result.kind = "Err")
        => \A i \in DOMAIN q :
              /\ q[i].phase = "done"
              /\ q[i].res.kind = "Err"

\* C6 witness: two queries, both failed, one with a transport error.
C6_Witness ==
    /\ Raced
    /\ result.kind = "Err"
    /\ Len(instances) >= 2
    /\ \E i \in DOMAIN q : q[i].res = Err(ErrRequest) /\ plan[i].kind = "error"

\* C7: with a discovery name configured, a failure of the resolver (its
\* construction or the lookup) makes get_instances fail, and the call returns
\* the Resolver error without any host query; it is neither an empty instance
\* set nor DoesNotServeHost.
C7_ResolverErrorSurfaces ==
    (gossip_dns_host # "None" /\ resolverFault # "none")
        => /\ queriesSent = 0
           /\ q = <<>>
           /\ pc # "racing"
           /\ Returned => /\ discovery = "Err"
                           /\ result = Err(ErrResolver)

\* C7 witness: the lookup itself failed and the call returned.
C7_Witness ==
    /\ gossip_dns_host # "None"
    /\ resolverFault = "lookup"
    /\ dnsLookups = 1
    /\ Returned
    /\ result = Err(ErrResolver)

----------------------------------------------------------------------------
\* Properties of the handshake code (checked under SpecHandshake).

\* C8: version(text) with a malformed version text reports a recoverable
\* error and never panics; with a well-formed text the built handshake holds
\* the parsed version.
C8_VersionSetterNeverPanics ==
    /\ panic # "version"
    /\ (hpc = "built" /\ versionArg # None)
          => handshake[1].version = Some(ParseVersion(versionArg[1]).v)

\* C9: decoding the encoding of a valid AgentHandshake yields a value equal
\* to the original, whichever optional fields are present and whichever Auth
\* variant it carries.
C9_RoundTrip ==
    hpc = "decoded"
        => /\ decoded[1].ok
           /\ decoded[1].v = handshake[1]

\* C9 witness: a handshake with all five optional fields present, a Key and a
\* version with prerelease and build parts was encoded and decoded.
C9_Witness ==
    /\ hpc = "decoded"
    /\ handshake[1].agent_name # None
    /\ handshake[1].version # None
    /\ handshake[1].version[1].pre # <<>>
    /\ handshake[1].local_info # None
    /\ handshake[1].service_info # None
    /\ handshake[1].encryption # None
    /\ handshake[1].auth.tag = "Key"
    /\ decoded[1].ok

\* C10: build() on a fresh builder succeeds with auth Anonymous, heartbeat
\* interval 0, timestamp 0, an agent id, and the five optional fields absent.
C10_BuilderDefault ==
    (hpc = "built" /\ builder = EmptyBuilder)
        => /\ panic = "none"
           /\ handshake[1].auth = AuthAnonymous
           /\ handshake[1].heartbeat_interval = 0
           /\ handshake[1].timestamp = 0
           /\ handshake[1].agent_id \in Uuids
           /\ handshake[1].agent_name = None
           /\ handshake[1].version = None
           /\ handshake[1].local_info = None
           /\ handshake[1].service_info = None
           /\ handshake[1].encryption = None

\* C10 witness: a fresh builder was built.
C10_Witness ==
    /\ hpc = "built"
    /\ builder = EmptyBuilder
    /\ handshake # None

\* C11: for every text s, agent_id(s) followed by the other setters builds
\* without a panic, the built agent_id is the identity s denotes, and every
\* other field that was set holds the value supplied.
C11_AgentIdFromAnyText ==
    /\ panic # "agent_id"
    /\ (hpc = "built" /\ agentIdArg # None)
          => /\ handshake[1].agent_id = ParseUuid(agentIdArg[1], UuidHexLen).v
             /\ \A f \in DOMAIN builder :
                   builder[f] # None => handshake[1][f] = builder[f][1]

\* C13 as stated: two build() calls on the same builder state yield equal
\* values, also when agent_id was never set.
C13_BuildRepeatable ==
    handshake2 # None => handshake2 = handshake

\* C13, amended: two build() calls on the same builder state agree on every
\* field but agent_id, and on agent_id too when it was set; when it was not
\* set each build draws its own agent id; the builder is left as it was, so
\* each value is what the builder still builds.
C13_BuildRepeatableUpToFreshId ==
    handshake2 # None
        => /\ builder.agent_id # None => handshake2 = handshake
           /\ [handshake2[1] EXCEPT !.agent_id = handshake[1].agent_id]
                 = handshake[1]
           /\ handshake[1].agent_id \in Uuids
           /\ handshake2[1].agent_id \in Uuids
           /\ handshake[1] =
                 BuildFrom(builder, DefaultHandshake(handshake[1].agent_id))
           /\ handshake2[1] =
                 BuildFrom(builder, DefaultHandshake(handshake2[1].agent_id))

\* C13 witness: a builder with agent_id, auth and version set was built twice
\* and the two values are equal.
C13_Witness ==
    /\ handshake2 # None
    /\ builder.agent_id # None
    /\ builder.auth # None
    /\ builder.version # None
    /\ handshake2 = handshake

----------------------------------------------------------------------------
\* Further properties of the host resolver (checked under Spec and SpecLive).

\* C15: an Ok((i, c)) result names a discovered instance i whose own query
\* completed with status 200 and the present client id c, which is the client
\* id that instance holds; without a positive answer no Ok is returned.
C15_OkPairsInstanceWithItsClient ==
    (Returned /\ result.kind = "Ok")
        => /\ \E k \in DOMAIN instances :
                /\ instances[k] = result.ip
                /\ PositiveAt(k)
                /\ q[k].phase = "done"
                /\ q[k].net = "body"
                /\ ~q[k].timer
                /\ q[k].status = StatusOK
                /\ q[k].body = "some"
                /\ q[k].client = result.client
           /\ result.client # NoClient
           /\ result.client = ClientOf(result.ip)

\* C15 witness: two instances hold the host, each under its own client id; the
\* answer of the second instance of the list arrived while the first one's
\* was under way, and the second instance was returned with its own client id.
C15_Witness ==
    /\ Returned
    /\ Len(instances) = 2
    /\ PositiveAt(1) /\ PositiveAt(2)
    /\ ClientOf(instances[1]) # ClientOf(instances[2])
    /\ q[1].net = "head" /\ q[2].net = "body"
    /\ q[1].phase = "dropped"
    /\ result = Ok(instances[2], ClientOf(instances[2]))

\* C16 as stated: the returned instance is the one whose positive answer
\* completed first; no other positive answer completed strictly before it.
C16_EarliestPositiveWins ==
    (Returned /\ result.kind = "Ok")
        => /\ firstPositive \in DOMAIN instances
           /\ result.ip = instances[firstPositive]

\* C16, amended: the returned instance is the first one in the instance list
\* among those whose positive answers had arrived when the race was polled
\* (so no poll passed over an arrived positive answer), and every other query
\* is then dropped or had failed before, so none changes the value.
C16_FirstReadyPositiveInListWins ==
    (Returned /\ result.kind = "Ok")
        => \E k \in DOMAIN instances :
              /\ result = Ok(instances[k], q[k].client)
              /\ PositiveAt(k)
              /\ q[k].net = "body"
              /\ \A j \in DOMAIN instances :
                    (PositiveAt(j) /\ q[j].net = "body") => k <= j
              /\ \A j \in DOMAIN instances \ {k} :
                    \/ q[j].phase = "dropped"
                    \/ q[j].phase = "done" /\ q[j].res.kind = "Err"
              /\ inner = <<>>

\* C16 witness: two positive answers had arrived when the race was polled, the
\* one of the second instance first; the first instance of the list won.
C16_Witness ==
    /\ Returned
    /\ Len(instances) = 2
    /\ PositiveAt(1) /\ PositiveAt(2)
    /\ q[1].net = "body" /\ q[2].net = "body"
    /\ firstPositive = 2
    /\ result = Ok(instances[1], q[1].client)
    /\ q[2].phase = "dropped"

\* Query i has got its response body, its transport error or its timeout.
Settled(i) == q[i].timer \/ q[i].net \in {"err", "body"}

\* C17: under the scheduling of Fairness every call returns; the poll at which
\* every query has completed or timed out returns, and so does the poll at
\* which a positive answer has arrived, whatever the other queries are doing.
C17_CallReturns ==
    /\ <>Returned
    /\ [][(/\ PollStep
           /\ \/ \A i \in DOMAIN q : Settled(i)
              \/ \E i \in DOMAIN q : /\ q[i].phase \in {"send", "json"}
                                     /\ PositiveAt(i)
                                     /\ q[i].net = "body")
             => pc' = "done"]_vars

\* C17 witness: the call returned a positive match while the query of another
\* instance, which was never going to answer, was still waiting for its timeout.
C17_Witness ==
    /\ Returned
    /\ result.kind = "Ok"
    /\ \E j \in DOMAIN instances :
          /\ plan[j].kind = "timeout"
          /\ q[j].phase = "dropped"
          /\ q[j].net = "none"
          /\ ~q[j].timer

\* C18: one call makes one discovery step, at most one DNS lookup, and one host
\* query per discovered instance, however many queries fail or time out.
C18_OneDiscoveryOneQueryEach ==
    /\ discoveries <= 1
    /\ dnsLookups <= 1
    /\ pc # "start" => discoveries = 1
    /\ queriesSent <= Len(instances)
    /\ (pc = "racing" \/ Raced) => queriesSent = Len(instances)
    /\ Len(q) = Len(instances)

\* C18 witness: a call over two instances returned after one query timed out
\* and the other failed; two queries were sent and one discovery made.
C18_Witness ==
    /\ Returned
    /\ Len(instances) = 2
    /\ \E i, j \in DOMAIN instances :
          /\ q[i].timer /\ q[i].phase = "done"
          /\ q[j].net = "err" /\ q[j].phase = "done"
    /\ result.kind = "Err"
    /\ queriesSent = 2
    /\ discoveries = 1

----------------------------------------------------------------------------
\* Properties of the server process (checked under SpecAccept, SpecRegistry
\* and SpecOnce).

\* C12: the accept loop of the public listener never stops accepting: whatever
\* the accepts so far led to, the main task is still in the loop.
C12_AcceptLoopNeverStops ==
    mainPc = "accept"

\* The handle the registry operations before history[n] left under key k of
\* registry r: the one of the last register, unless a remove came after it.
LastWrite(r, k, n) ==
    LET writes == {i \in 1..(n - 1) : /\ history[i].reg = r
                                      /\ history[i].key = k
                                      /\ history[i].op # "lookup"}
    IN  IF writes = {}
        THEN NoHandle
        ELSE LET last == CHOOSE i \in writes : \A j \in writes : j <= i
             IN  history[last].handle

\* C14: in both registries, after any sequence of operations by any tasks, a
\* key holds the handle of its last registration (the second of two
\* registrations with different handles), every lookup returned that handle,
\* and a remove, also one of an absent key, changed no other entry and
\* returned without error what the key held.
C14_RegistryLastWriterWins ==
    /\ \A r \in {"connections", "active_streams"}, k \in RegKeys :
          MapGet(Registry(r), k) = LastWrite(r, k, Len(history) + 1)
    /\ \A n \in DOMAIN history :
          history[n].op \in {"lookup", "remove"}
              => history[n].ret = LastWrite(history[n].reg, history[n].key, n)

\* C14 witness: a key was registered twice with different handles and looked
\* up afterwards.
C14_Witness ==
    \E r \in {"connections", "active_streams"}, k \in RegKeys :
        /\ Len(history) = 3
        /\ \A n \in 1..3 : history[n].reg = r /\ history[n].key = k
        /\ history[1].op = "register"
        /\ history[2].op = "register"
        /\ history[1].handle # history[2].handle
        /\ history[3].op = "lookup"
        /\ history[3].ret = history[2].handle

\* C19: whatever the interleaving of the tasks' getter calls, the initialiser
\* of every singleton has run at most once, its value is the one stored, and
\* every call of the getter returned that one instance.
C19_SingletonsInitialisedOnce ==
    \A s \in Singletons :
        /\ initRuns[s] <= 1
        /\ cell[s].st = "set" => cell[s].inst = 1 /\ initRuns[s] = 1
        /\ \A t \in Tasks :
              got[t][s] # 0 => cell[s].st = "set" /\ got[t][s] = cell[s].inst

\* C19 witness: two tasks made their first call of a getter concurrently; one
\* ran the initialiser and got the instance, the other blocked meanwhile and
\* is about to get the stored instance.
C19_Witness ==
    \E s \in Singletons, t, u \in Tasks :
        /\ t # u
        /\ got[u][s] = 1
        /\ cell[s] = [st |-> "set", inst |-> 1]
        /\ task[t].stack # <<>>
        /\ Top(t) = [s |-> s, pos |-> "wait"]

====
